---- MODULE Spec2Model ----
(***************************************************************************)
(* A model of the LimeSurvey dashboard (src/app.py, src/mysurvey.py):      *)
(* the cache file and its refresh (update_cache, load_cached_data,         *)
(* poll_cache), the startup sequence (main) and the Dash callback          *)
(* update_dashboard with its cutoff parsing, rate limit and filter.        *)
(*                                                                         *)
(* Strings that the code parses are sequences of one-character strings.    *)
(* Times are whole seconds on the process's clock (now).                   *)
(***************************************************************************)
EXTENDS Integers, Sequences, FiniteSets, TLC

\* ------------------------------------------------------------------------
\* Bounds of the model
\* ------------------------------------------------------------------------

\* The clock stops advancing at MaxTime.
MaxTime == 60
\* The clock advances in steps of TickLen seconds.
TickLen == 30
\* A pickle is written, and read, in NChunks pieces.
NChunks == 2
\* The count of temporary files left in the cache directory saturates here.
MaxTmpLeft == 1
\* Longest list of responses the pure-function specification draws.
MaxRows == 2

\* ------------------------------------------------------------------------
\* Program constants
\* ------------------------------------------------------------------------

\* app.py:265  if (now - last).total_seconds() >= 60
MinRefreshSpacing == 60
\* app.py:220  datetime.now(...) - timedelta(hours=1)
StoreOffset == 3600
\* mysurvey.py:11  LASTPAGE_THRESHOLD (configured by LIMESURVEY_LASTPAGE)
LASTPAGE_THRESHOLD == 3

\* Python's None where a str is expected, as a value and as a string of
\* characters; an unset record; pandas' NaT.
None == "None"
NoneStr == <<"None">>
Nothing == [none |-> TRUE]
NaT == [nat |-> TRUE]
\* The marker of a call that raised instead of returning.
Raised == [raised |-> "Exception"]

\* ------------------------------------------------------------------------
\* Strings and their parsing
\* ------------------------------------------------------------------------

Digit == {"0", "1", "2", "3", "4", "5", "6", "7", "8", "9"}

DigitVal(c) ==
  CASE c = "0" -> 0 [] c = "1" -> 1 [] c = "2" -> 2 [] c = "3" -> 3
    [] c = "4" -> 4 [] c = "5" -> 5 [] c = "6" -> 6 [] c = "7" -> 7
    [] c = "8" -> 8 [] c = "9" -> 9

RECURSIVE DigitsVal(_)
DigitsVal(s) ==
  IF s = <<>> THEN 0
  ELSE 10 * DigitsVal(SubSeq(s, 1, Len(s) - 1)) + DigitVal(s[Len(s)])

AllDigits(s) == s # <<>> /\ \A i \in 1..Len(s) : s[i] \in Digit

\* str.split(sep): the fields between the separators (always at least one).
RECURSIVE Split(_, _)
Split(s, sep) ==
  IF \A i \in 1..Len(s) : s[i] # sep THEN <<s>>
  ELSE LET k == CHOOSE i \in 1..Len(s) :
                   s[i] = sep /\ \A j \in 1..(i - 1) : s[j] # sep
       IN <<SubSeq(s, 1, k - 1)>> \o Split(SubSeq(s, k + 1, Len(s)), sep)

\* int(s): an optional sign and at least one digit; anything else raises.
IntOk(s) ==
  \/ AllDigits(s)
  \/ Len(s) > 1 /\ s[1] \in {"-", "+"} /\ AllDigits(Tail(s))
IntOf(s) ==
  IF AllDigits(s) THEN DigitsVal(s)
  ELSE IF s[1] = "-" THEN 0 - DigitsVal(Tail(s)) ELSE DigitsVal(Tail(s))

\* ------------------------------------------------------------------------
\* Dates and datetimes
\* ------------------------------------------------------------------------

IsLeap(y) == (y % 4 = 0 /\ y % 100 # 0) \/ y % 400 = 0
DaysIn(y, m) ==
  IF m = 2 THEN (IF IsLeap(y) THEN 29 ELSE 28)
  ELSE IF m \in {4, 6, 9, 11} THEN 30 ELSE 31

\* datetime.fromisoformat(s).date() for the form a date picker sends,
\* YYYY-MM-DD: the date, or Raised (ValueError).
DateFromIso(s) ==
  IF /\ Len(s) = 10
     /\ s[5] = "-" /\ s[8] = "-"
     /\ AllDigits(SubSeq(s, 1, 4)) /\ AllDigits(SubSeq(s, 6, 7))
     /\ AllDigits(SubSeq(s, 9, 10))
  THEN LET y == DigitsVal(SubSeq(s, 1, 4))
           m == DigitsVal(SubSeq(s, 6, 7))
           d == DigitsVal(SubSeq(s, 9, 10))
       IN IF y >= 1 /\ m \in 1..12 /\ d >= 1 /\ d <= DaysIn(y, m)
          THEN [year |-> y, month |-> m, day |-> d]
          ELSE Raised
  ELSE Raised

\* datetime(year, month, day, hour, minute, tzinfo): the value, or Raised
\* (ValueError) when a field is out of range.
MkDatetime(date, h, mi) ==
  IF h \in 0..23 /\ mi \in 0..59
  THEN [year |-> date.year, month |-> date.month, day |-> date.day,
        hour |-> h, minute |-> mi]
  ELSE Raised

DateOf(dt) == [year |-> dt.year, month |-> dt.month, day |-> dt.day]

\* a > b on datetimes of one timezone; NaT compares False.
DtKey(dt) == <<dt.year, dt.month, dt.day, dt.hour, dt.minute>>
RECURSIVE LexGreater(_, _)
LexGreater(a, b) ==
  IF a = <<>> THEN FALSE
  ELSE IF Head(a) # Head(b) THEN Head(a) > Head(b)
  ELSE LexGreater(Tail(a), Tail(b))
DtGreater(a, b) == a # NaT /\ b # NaT /\ LexGreater(DtKey(a), DtKey(b))

\* app.py:22
DefaultCutoff == [year |-> 2025, month |-> 5, day |-> 20, hour |-> 18, minute |-> 0]

\* ------------------------------------------------------------------------
\* Data frames (pandas.DataFrame): a set of columns and a list of rows
\* ------------------------------------------------------------------------

\* pd.DataFrame([]): no columns, no rows.
EmptyFrame == [cols |-> {}, rows |-> <<>>]

\* DataFrame.empty: some axis has length 0.
FrameEmpty(df) == df.rows = <<>> \/ df.cols = {}

\* The remote's reply to export_responses: a transport failure, or the
\* decoded payload's list of responses with the keys every response has.
NetworkError == [error |-> "NetworkError"]
MkPayload(keys, rows) == [keys |-> keys, rows |-> rows]

\* fetch_responses (app.py:52-90) on a reply: the frame, or Raised.
FetchResponses(reply) ==
  IF reply = NetworkError THEN Raised
  ELSE IF reply.rows = <<>> THEN EmptyFrame
  ELSE IF "lastpage" \notin reply.keys \/ "startdate" \notin reply.keys
       THEN Raised
  ELSE [cols |-> reply.keys \cup {"is_completed"},
        rows |-> [i \in 1..Len(reply.rows) |->
                    [k \in reply.keys \cup {"is_completed"} |->
                       IF k = "is_completed"
                       THEN reply.rows[i]["lastpage"] >= LASTPAGE_THRESHOLD
                       ELSE reply.rows[i][k]]]]

\* filter_by_cutoff (app.py:92-96).
filter_by_cutoff(df, cutoff_time) ==
  IF FrameEmpty(df) \/ "startdate" \notin df.cols THEN df
  ELSE LET After(r) == DtGreater(r["startdate"], cutoff_time)
       IN [cols |-> df.cols, rows |-> SelectSeq(df.rows, After)]

\* app.py:271-272: the completed-only restriction; df['is_completed']
\* raises KeyError on a frame without that column.
CompletedOnly(df, completed_only) ==
  IF Len(completed_only) > 0 /\ completed_only[1] # 0
  THEN IF "is_completed" \notin df.cols THEN Raised
       ELSE LET Done(r) == r["is_completed"]
            IN [cols |-> df.cols, rows |-> SelectSeq(df.rows, Done)]
  ELSE df

\* app.py:270-272: the view update_dashboard renders, or Raised.
FilterView(df_all, cutoff_time, completed_only) ==
  CompletedOnly(filter_by_cutoff(df_all, cutoff_time), completed_only)

\* app.py:275-289: the intro text of a rendered view.
NoData == [kind |-> "nodata"]
Intro(df, data_timestamp, cutoff_time) ==
  IF FrameEmpty(df) \/ "token" \notin df.cols THEN NoData
  ELSE LET Done(r) == r["is_completed"]
           completed == Len(SelectSeq(df.rows, Done))
       IN [kind |-> "summary",
           n_tokens |-> Cardinality({df.rows[i]["token"] : i \in 1..Len(df.rows)} \ {None}),
           partial |-> Len(df.rows) - completed,
           completed |-> completed,
           updated |-> data_timestamp,
           cutoff |-> cutoff_time]

\* ------------------------------------------------------------------------
\* The cutoff selector (app.py:244-258)
\* ------------------------------------------------------------------------

\* app.py:244-250: the date part, falling back to the global on None or on
\* any exception.
ParseDatePart(cutoff_date, global_cutoff) ==
  IF cutoff_date = NoneStr THEN DateOf(global_cutoff)
  ELSE IF DateFromIso(cutoff_date) = Raised THEN DateOf(global_cutoff)
  ELSE DateFromIso(cutoff_date)

\* app.py:252-255: hours, minutes = map(int, (cutoff_time or "").split(':')),
\* falling back to the global on any exception (a field that is no integer,
\* or not exactly two fields).
ParseTimePart(cutoff_time, global_cutoff) ==
  LET fields == Split(IF cutoff_time = NoneStr THEN <<>> ELSE cutoff_time, ":")
  IN IF Len(fields) = 2 /\ IntOk(fields[1]) /\ IntOk(fields[2])
     THEN <<IntOf(fields[1]), IntOf(fields[2])>>
     ELSE <<global_cutoff.hour, global_cutoff.minute>>

\* strftime("%H:%M") of a datetime (app.py:202), as the text input shows it.
TwoDigits(n) ==
  LET D(k) == CHOOSE c \in Digit : DigitVal(c) = k
  IN <<D(n \div 10), D(n % 10)>>
FormatTime(dt) == TwoDigits(dt.hour) \o <<":">> \o TwoDigits(dt.minute)

\* date.isoformat() of a date (app.py:201), as the date picker holds it.
RECURSIVE PadDigits(_, _)
PadDigits(n, width) ==
  IF width = 0 THEN <<>>
  ELSE PadDigits(n \div 10, width - 1)
         \o <<CHOOSE c \in Digit : DigitVal(c) = n % 10>>
FormatDate(d) ==
  PadDigits(d.year, 4) \o <<"-">> \o PadDigits(d.month, 2) \o <<"-">>
    \o PadDigits(d.day, 2)


\* ------------------------------------------------------------------------
\* Inputs: what the remote replies and what a browser sends
\* ------------------------------------------------------------------------

Dt(d, h, mi) == [year |-> 2025, month |-> 5, day |-> d, hour |-> h, minute |-> mi]
Response(token, startdate, lastpage) ==
  [token |-> token, startdate |-> startdate, lastpage |-> lastpage]

AllKeys == {"token", "startdate", "lastpage"}

\* No responses yet.
PayloadEmpty == MkPayload(AllKeys, <<>>)
\* Responses on both sides of the default cutoff, complete and partial, one
\* without a token and one without a start date.
PayloadMixed ==
  MkPayload(AllKeys,
            << Response("a", Dt(20, 17, 0), 5), Response("b", Dt(21, 10, 0), 1),
               Response(None, Dt(21, 12, 0), 5), Response("a", NaT, 5) >>)
\* An anonymous survey: the export has no token column.
PayloadNoToken ==
  MkPayload({"startdate", "lastpage"},
            << [startdate |-> Dt(21, 10, 0), lastpage |-> 5] >>)
\* A structurally invalid payload: the responses have no lastpage.
PayloadBad ==
  MkPayload({"token", "startdate"},
            << [token |-> "a", startdate |-> Dt(21, 10, 0)] >>)

\* The callback's trigger (dash.callback_context.triggered[0]['prop_id']);
\* the empty string stands for the initial call of a page load.
InitialCall == ""
RefreshButton == "refresh-button.n_clicks"
IntervalTick == "interval-component.n_intervals"
DateChange == "cutoff-date-picker.date"
TimeChange == "cutoff-time-input.value"
CheckboxChange == "completed-only-checkbox.value"
Triggers == {RefreshButton, IntervalTick, DateChange, TimeChange, CheckboxChange}

\* app.py:264  'refresh-button' in triggered
IsRefresh(trigger) == trigger = RefreshButton

Date20 == <<"2", "0", "2", "5", "-", "0", "5", "-", "2", "0">>
Date21 == <<"2", "0", "2", "5", "-", "0", "5", "-", "2", "1">>
DateNoSuchDay == <<"2", "0", "2", "5", "-", "0", "2", "-", "3", "0">>
DateGarbage == <<"g", "a", "r", "b", "a", "g", "e">>

Time1800 == <<"1", "8", ":", "0", "0">>
Time0930 == <<"0", "9", ":", "3", "0">>
TimeGarbage == <<"g", "a", "r", "b", "a", "g", "e">>
TimeEmpty == <<>>
TimeThreeFields == <<"1", ":", "2", ":", "3">>
Time2599 == <<"2", "5", ":", "9", "9">>

ValidDates == {Date20, Date21}
MalformedDates == {DateNoSuchDay, DateGarbage}
ValidTimes == {Time1800, Time0930}
MalformedTimes == {TimeGarbage, TimeEmpty, TimeThreeFields, Time2599}

\* The checklist's value: [] or [1].
Unchecked == <<>>
Checked == <<1>>

\* ------------------------------------------------------------------------
\* The state
\* ------------------------------------------------------------------------

Clients == {"c1", "c2"}
Threads == {"main", "poll"} \cup Clients
InodeIds == 1..(Cardinality(Threads) + 1)

VARIABLES
  now,            \* the wall clock, in seconds
  pc,             \* each thread's position
  ret,            \* the call site of the update_cache a thread is in
  outcome,        \* history: how each thread's last update_cache ended
  ucDf,           \* update_cache's df, per thread
  ucTmp,          \* update_cache's temporary file (its inode), per thread
  cachePath,      \* the inode CACHE_FILE names, 0 when the file is absent
  inodes,         \* the files' content and modification time
  tmpLeft,        \* temporary files left behind in CACHE_DIR
  CUTOFF_TIME,    \* the global of app.py:22
  DATA_TIMESTAMP, \* the global of app.py:41: <<>> for None, else <<mtime>>
  layout,         \* the layout main built (app.py:183-221), Nothing before
  ui,             \* each browser's inputs
  store,          \* each browser's last-refresh-store
  req,            \* the arguments and locals of a running update_dashboard
  resp,           \* what each browser's last callback returned
  installed,      \* history: the frames os.replace has made the snapshot
  accepted,       \* history: <<now>> of each client's last accepted refresh
  attempted,      \* history: <<now>> of the last call of update_cache, <<>> before
  fetchOrder      \* history: the threads holding fetched data and the
                  \* snapshot in CACHE_FILE, in the order of their fetches

vars == <<now, pc, ret, outcome, ucDf, ucTmp, cachePath, inodes, tmpLeft, CUTOFF_TIME,
          DATA_TIMESTAMP, layout, ui, store, req, resp, installed, accepted, attempted, fetchOrder>>

\* DataFrame.to_pickle's output, in the pieces it is written in.
Pickle(df) == [i \in 1..NChunks |-> [part |-> i, of |-> df]]

\* pd.read_pickle on what was read: the frame, or Raised on anything that is
\* not one whole pickle.
Unpickle(buf) ==
  IF Len(buf) = NChunks /\ buf = Pickle(buf[1].of) THEN buf[1].of ELSE Raised

NoReq ==
  [trigger |-> None, cutoff_date |-> NoneStr, cutoff_time |-> NoneStr,
   completed_only |-> <<>>, last_refresh |-> 0, cutoff0 |-> Nothing,
   date_part |-> Nothing, hm |-> <<>>, now |-> 0, last |-> 0, fd |-> 0,
   buf |-> <<>>, src |-> <<>>, df_all |-> Nothing, df |-> Nothing]

\* What a raising callback leaves the browser with.
RaisedWith(kind) == [raised |-> kind]

UcPcs == {"uc_fetch", "uc_mktemp", "uc_write", "uc_replace"}

\* The place of CACHE_FILE's snapshot in fetchOrder.
FileMark == "CACHE_FILE"

\* The order without thread t.
Drop(order, t) == LET Keep(x) == x # t IN SelectSeq(order, Keep)

\* The order once thread t's os.replace has made its data the snapshot:
\* the snapshot takes t's place.
Installs(order, t) ==
  LET Keep(x) == x # FileMark
      rest == SelectSeq(order, Keep)
  IN [i \in 1..Len(rest) |-> IF rest[i] = t THEN FileMark ELSE rest[i]]

\* An inode no name and no open file refers to is gone.
Gc(files, path, tmps, reqs) ==
  [i \in InodeIds |->
     IF i = path \/ (\E t \in Threads : tmps[t] = i)
          \/ (\E c \in Clients : reqs[c].fd = i)
     THEN files[i] ELSE Nothing]

FreeInode ==
  CHOOSE i \in InodeIds :
    inodes[i] = Nothing /\ \A j \in 1..(i - 1) : inodes[j] # Nothing

\* The snapshot a previous run of the program left in the temporary
\* directory, when there is one.
PriorFrame == FetchResponses(PayloadMixed)

Init ==
  /\ now = 0
  /\ pc = [t \in Threads |->
             IF t = "main" THEN "m_start" ELSE IF t = "poll" THEN "unstarted" ELSE "closed"]
  /\ ret = [t \in Threads |-> None]
  /\ outcome = [t \in Threads |-> "none"]
  /\ ucDf = [t \in Threads |-> Nothing]
  /\ ucTmp = [t \in Threads |-> 0]
  /\ \E prior \in BOOLEAN :
       /\ cachePath = IF prior THEN 1 ELSE 0
       /\ inodes = [i \in InodeIds |->
                      IF prior /\ i = 1
                      THEN [data |-> Pickle(PriorFrame), mtime |-> 0 - StoreOffset]
                      ELSE Nothing]
       /\ installed = IF prior THEN {PriorFrame} ELSE {}
  /\ tmpLeft = 0
  /\ CUTOFF_TIME = DefaultCutoff
  /\ DATA_TIMESTAMP = <<>>
  /\ layout = Nothing
  /\ ui = [c \in Clients |-> Nothing]
  /\ store = [c \in Clients |-> 0]
  /\ req = [c \in Clients |-> NoReq]
  /\ resp = [c \in Clients |-> Nothing]
  /\ accepted = [c \in Clients |-> <<>>]
  /\ attempted = <<>>
  /\ fetchOrder = <<FileMark>>


\* ------------------------------------------------------------------------
\* Leaving update_cache (app.py:100-104), by its call site
\* ------------------------------------------------------------------------

Min(a, b) == IF a < b THEN a ELSE b

\* update_cache returns: main goes on to start the polling thread
\* (app.py:177), poll_cache sleeps again (app.py:121-122), update_dashboard
\* sets last = now (app.py:267), load_cached_data reads the mtime
\* (app.py:112).
Returned(t) ==
  /\ pc' = [pc EXCEPT ![t] =
              CASE ret[t] = "main" -> "m_thread"
                [] ret[t] = "poll" -> "p_sleep"
                [] ret[t] = "button" -> "h_load"
                [] ret[t] = "load" -> "l_mtime"]
  /\ ret' = [ret EXCEPT ![t] = None]
  /\ outcome' = [outcome EXCEPT ![t] = "ok"]
  /\ req' = IF ret[t] = "button" THEN [req EXCEPT ![t].last = req[t].now] ELSE req
  /\ resp' = resp

\* Raises without the try of app.py:123-126: an exception of the polling
\* thread's update_cache ends the thread.
RaisesUncaught(t) ==
  /\ pc' = [pc EXCEPT ![t] =
              CASE ret[t] = "main" -> "crashed"
                [] ret[t] = "poll" -> "dead"
                [] OTHER -> "idle"]
  /\ ret' = [ret EXCEPT ![t] = None]
  /\ outcome' = [outcome EXCEPT ![t] = "failed"]
  /\ req' = IF t \in Clients THEN [req EXCEPT ![t] = NoReq] ELSE req
  /\ resp' = IF t \in Clients
             THEN [resp EXCEPT ![t] = RaisedWith("RefreshError")] ELSE resp

\* update_cache raises: main's exception ends the process before it serves
\* (app.py:176, 293), poll_cache prints and loops (app.py:125-126), a
\* callback's exception goes to its caller (app.py:266, 111).
Raises(t) ==
  /\ pc' = [pc EXCEPT ![t] =
              CASE ret[t] = "main" -> "crashed"
                [] ret[t] = "poll" -> "p_sleep"
                [] OTHER -> "idle"]
  /\ ret' = [ret EXCEPT ![t] = None]
  /\ outcome' = [outcome EXCEPT ![t] = "failed"]
  /\ req' = IF t \in Clients THEN [req EXCEPT ![t] = NoReq] ELSE req
  /\ resp' = IF t \in Clients
             THEN [resp EXCEPT ![t] = RaisedWith("RefreshError")] ELSE resp

\* A callback's own exception goes to its caller.
HandlerRaises(c, kind) ==
  /\ pc' = [pc EXCEPT ![c] = "idle"]
  /\ req' = [req EXCEPT ![c] = NoReq]
  /\ resp' = [resp EXCEPT ![c] = RaisedWith(kind)]

Call(t, site) ==
  /\ pc' = [pc EXCEPT ![t] = "uc_fetch"]
  /\ ret' = [ret EXCEPT ![t] = site]
  /\ attempted' = <<now>>
  /\ UNCHANGED outcome

\* ------------------------------------------------------------------------
\* update_cache (app.py:100-104)
\* ------------------------------------------------------------------------

\* app.py:101  df = fetch_responses()
UC_Fetch(t, reply) ==
  /\ pc[t] = "uc_fetch"
  /\ IF FetchResponses(reply) = Raised
     THEN Raises(t) /\ UNCHANGED <<ucDf, fetchOrder>>
     ELSE /\ ucDf' = [ucDf EXCEPT ![t] = FetchResponses(reply)]
          /\ fetchOrder' = Append(fetchOrder, t)
          /\ pc' = [pc EXCEPT ![t] = "uc_mktemp"]
          /\ UNCHANGED <<ret, outcome, req, resp>>
  /\ UNCHANGED <<now, ucTmp, cachePath, inodes, tmpLeft, CUTOFF_TIME,
                 DATA_TIMESTAMP, layout, ui, store, installed, accepted, attempted>>

\* UC_MkTemp without the temporary file: update_cache opens CACHE_FILE
\* itself for writing, which truncates it, and pickles into it.
UC_MkTempInPlace(t, ok) ==
  /\ pc[t] = "uc_mktemp"
  /\ IF ok
     THEN LET i == IF cachePath = 0 THEN FreeInode ELSE cachePath
          IN /\ ucTmp' = [ucTmp EXCEPT ![t] = i]
             /\ inodes' = [inodes EXCEPT ![i] = [data |-> <<>>, mtime |-> now]]
             /\ cachePath' = i
             /\ pc' = [pc EXCEPT ![t] = "uc_write"]
             /\ UNCHANGED <<ret, outcome, req, resp, ucDf, fetchOrder>>
     ELSE /\ Raises(t)
          /\ ucDf' = [ucDf EXCEPT ![t] = Nothing]
          /\ fetchOrder' = Drop(fetchOrder, t)
          /\ UNCHANGED <<ucTmp, inodes, cachePath>>
  /\ UNCHANGED <<now, tmpLeft, CUTOFF_TIME, DATA_TIMESTAMP, layout,
                 ui, store, installed, accepted, attempted>>

\* app.py:102  tempfile.NamedTemporaryFile(dir=CACHE_DIR, delete=False):
\* a new empty file under a name of its own, or an OSError.
UC_MkTemp(t, ok) ==
  /\ pc[t] = "uc_mktemp"
  /\ IF ok
     THEN /\ ucTmp' = [ucTmp EXCEPT ![t] = FreeInode]
          /\ inodes' = [inodes EXCEPT ![FreeInode] = [data |-> <<>>, mtime |-> now]]
          /\ pc' = [pc EXCEPT ![t] = "uc_write"]
          /\ UNCHANGED <<ret, outcome, req, resp, ucDf, fetchOrder>>
     ELSE /\ Raises(t)
          /\ ucDf' = [ucDf EXCEPT ![t] = Nothing]
          /\ fetchOrder' = Drop(fetchOrder, t)
          /\ UNCHANGED <<ucTmp, inodes>>
  /\ UNCHANGED <<now, cachePath, tmpLeft, CUTOFF_TIME, DATA_TIMESTAMP, layout,
                 ui, store, installed, accepted, attempted>>

\* update_cache raises after it made its temporary file: nothing removes the
\* file (delete=False), and the program never refers to it again.
LeavesTmp(t) ==
  /\ Raises(t)
  /\ ucDf' = [ucDf EXCEPT ![t] = Nothing]
  /\ ucTmp' = [ucTmp EXCEPT ![t] = 0]
  /\ tmpLeft' = Min(tmpLeft + 1, MaxTmpLeft)
  /\ inodes' = Gc(inodes, cachePath, ucTmp', req)
  /\ fetchOrder' = Drop(fetchOrder, t)

\* app.py:103  df.to_pickle(tmp.name): the next piece of the pickle goes to
\* the temporary file, or the write fails.
UC_Write(t, ok) ==
  /\ pc[t] = "uc_write"
  /\ IF ok
     THEN LET f == inodes[ucTmp[t]]
              data == Append(f.data, Pickle(ucDf[t])[Len(f.data) + 1])
          IN /\ inodes' = [inodes EXCEPT ![ucTmp[t]] = [data |-> data, mtime |-> now]]
             /\ pc' = [pc EXCEPT ![t] =
                         IF Len(data) = NChunks THEN "uc_replace" ELSE "uc_write"]
             /\ UNCHANGED <<ret, outcome, req, resp, ucDf, ucTmp, tmpLeft, fetchOrder>>
     ELSE LeavesTmp(t)
  /\ UNCHANGED <<now, cachePath, CUTOFF_TIME, DATA_TIMESTAMP, layout, ui,
                 store, installed, accepted, attempted>>

\* UC_Replace as os.remove(CACHE_FILE) followed by os.rename: a failure of
\* the second call leaves no file under the name.
UC_ReplaceByRemove(t, ok) ==
  /\ pc[t] = "uc_replace"
  /\ IF ok
     THEN /\ cachePath' = ucTmp[t]
          /\ ucTmp' = [ucTmp EXCEPT ![t] = 0]
          /\ inodes' = Gc(inodes, cachePath', ucTmp', req)
          /\ installed' = installed \cup {ucDf[t]}
          /\ ucDf' = [ucDf EXCEPT ![t] = Nothing]
          /\ fetchOrder' = Installs(fetchOrder, t)
          /\ Returned(t)
          /\ UNCHANGED tmpLeft
     ELSE /\ Raises(t)
          /\ ucDf' = [ucDf EXCEPT ![t] = Nothing]
          /\ ucTmp' = [ucTmp EXCEPT ![t] = 0]
          /\ tmpLeft' = Min(tmpLeft + 1, MaxTmpLeft)
          /\ cachePath' = 0
          /\ inodes' = Gc(inodes, cachePath', ucTmp', req)
          /\ fetchOrder' = Drop(fetchOrder, t)
          /\ UNCHANGED installed
  /\ UNCHANGED <<now, CUTOFF_TIME, DATA_TIMESTAMP, layout, ui, store, accepted, attempted>>

\* app.py:104  os.replace(tmp.name, CACHE_FILE): CACHE_FILE names the
\* temporary file's inode from here on, in one step; or the call fails and
\* changes nothing.
UC_Replace(t, ok) ==
  /\ pc[t] = "uc_replace"
  /\ IF ok
     THEN /\ cachePath' = ucTmp[t]
          /\ ucTmp' = [ucTmp EXCEPT ![t] = 0]
          /\ inodes' = Gc(inodes, cachePath', ucTmp', req)
          /\ installed' = installed \cup {ucDf[t]}
          /\ ucDf' = [ucDf EXCEPT ![t] = Nothing]
          /\ fetchOrder' = Installs(fetchOrder, t)
          /\ Returned(t)
          /\ UNCHANGED tmpLeft
     ELSE /\ LeavesTmp(t)
          /\ UNCHANGED <<cachePath, installed>>
  /\ UNCHANGED <<now, CUTOFF_TIME, DATA_TIMESTAMP, layout, ui, store, accepted, attempted>>

\* ------------------------------------------------------------------------
\* main (app.py:174-221, 293-298) and poll_cache (app.py:120-126)
\* ------------------------------------------------------------------------

\* main without the startup refresh of app.py:176.
MainStartNoRefresh ==
  /\ pc["main"] = "m_start"
  /\ pc' = [pc EXCEPT !["main"] = "m_thread"]
  /\ UNCHANGED <<now, ret, outcome, ucDf, ucTmp, cachePath, inodes, tmpLeft,
                 CUTOFF_TIME, DATA_TIMESTAMP, layout, ui, store, req, resp,
                 installed, accepted, attempted, fetchOrder>>

\* app.py:176  the startup refresh
MainStart ==
  /\ pc["main"] = "m_start"
  /\ Call("main", "main")
  /\ UNCHANGED <<now, ucDf, ucTmp, cachePath, inodes, tmpLeft, CUTOFF_TIME,
                 DATA_TIMESTAMP, layout, ui, store, req, resp, installed,
                 accepted, fetchOrder>>

\* main with lines 176 and 177 the other way round: the thread starts while
\* the startup refresh has not run.
MainStartThreadFirst ==
  /\ \/ /\ pc["main"] = "m_start"
        /\ pc["poll"] = "unstarted"
        /\ pc' = [pc EXCEPT !["poll"] = "p_sleep"]
     \/ /\ pc["main"] = "m_thread"
        /\ pc' = [pc EXCEPT !["main"] = "m_layout"]
  /\ UNCHANGED <<now, ret, outcome, ucDf, ucTmp, cachePath, inodes, tmpLeft,
                 CUTOFF_TIME, DATA_TIMESTAMP, layout, ui, store, req, resp,
                 installed, accepted, attempted, fetchOrder>>

\* app.py:177  threading.Thread(target=poll_cache, daemon=True).start()
MainStartThread ==
  /\ pc["main"] = "m_thread"
  /\ pc' = [pc EXCEPT !["main"] = "m_layout", !["poll"] = "p_sleep"]
  /\ UNCHANGED <<now, ret, outcome, ucDf, ucTmp, cachePath, inodes, tmpLeft, CUTOFF_TIME,
                 DATA_TIMESTAMP, layout, ui, store, req, resp, installed, accepted, attempted, fetchOrder>>

\* app.py:179-221, 291-298  the layout, with the inputs' and the store's
\* initial values, then the server.
MainLayout ==
  /\ pc["main"] = "m_layout"
  /\ layout' = [date |-> FormatDate(DateOf(CUTOFF_TIME)),
                time |-> FormatTime(CUTOFF_TIME),
                completed |-> Unchecked,
                store |-> now - StoreOffset]
  /\ pc' = [pc EXCEPT !["main"] = "serving"]
  /\ UNCHANGED <<now, ret, outcome, ucDf, ucTmp, cachePath, inodes, tmpLeft, CUTOFF_TIME,
                 DATA_TIMESTAMP, ui, store, req, resp, installed, accepted, attempted, fetchOrder>>

\* app.py:121-124  time.sleep(15 * 60) returns and the loop refreshes. The
\* sleep's length is not modelled: the loop wakes at any time.
PollWake ==
  /\ pc["poll"] = "p_sleep"
  /\ Call("poll", "poll")
  /\ UNCHANGED <<now, ucDf, ucTmp, cachePath, inodes, tmpLeft, CUTOFF_TIME,
                 DATA_TIMESTAMP, layout, ui, store, req, resp, installed,
                 accepted, fetchOrder>>

\* Time passes.
Tick ==
  /\ now + TickLen <= MaxTime
  /\ now' = now + TickLen
  /\ UNCHANGED <<pc, ret, outcome, ucDf, ucTmp, cachePath, inodes, tmpLeft, CUTOFF_TIME,
                 DATA_TIMESTAMP, layout, ui, store, req, resp, installed, accepted, attempted, fetchOrder>>


\* ------------------------------------------------------------------------
\* The browser: a page load and the events that fire the callback
\* ------------------------------------------------------------------------

NewRequest(trigger, inputs, last_refresh) ==
  [NoReq EXCEPT !.trigger = trigger, !.cutoff_date = inputs.date,
                !.cutoff_time = inputs.time, !.completed_only = inputs.completed,
                !.last_refresh = last_refresh]

\* A browser loads the page once the server runs: it holds the layout's
\* values and fires the callback's initial call (app.py:225-237).
PageLoad(c) ==
  /\ pc["main"] = "serving"
  /\ pc[c] = "closed"
  /\ ui' = [ui EXCEPT ![c] = [date |-> layout.date, time |-> layout.time,
                              completed |-> layout.completed]]
  /\ store' = [store EXCEPT ![c] = layout.store]
  /\ req' = [req EXCEPT ![c] = NewRequest(InitialCall, ui'[c], layout.store)]
  /\ pc' = [pc EXCEPT ![c] = "h_date"]
  /\ UNCHANGED <<now, ret, outcome, ucDf, ucTmp, cachePath, inodes, tmpLeft, CUTOFF_TIME,
                 DATA_TIMESTAMP, layout, resp, installed, accepted, attempted, fetchOrder>>

\* An input of the callback changes (app.py:229-235): the timer ticks, the
\* button is pressed, or the user edits the date, the time or the checkbox;
\* the browser sends every input's value and the store's (app.py:235).
UiEvent(c, trigger, value) ==
  /\ pc["main"] = "serving"
  /\ pc[c] = "idle"
  /\ trigger \in {DateChange, TimeChange, CheckboxChange} =>
       value # (CASE trigger = DateChange -> ui[c].date
                  [] trigger = TimeChange -> ui[c].time
                  [] trigger = CheckboxChange -> ui[c].completed)
  /\ ui' = [ui EXCEPT ![c] =
              CASE trigger = DateChange -> [ui[c] EXCEPT !.date = value]
                [] trigger = TimeChange -> [ui[c] EXCEPT !.time = value]
                [] trigger = CheckboxChange -> [ui[c] EXCEPT !.completed = value]
                [] OTHER -> ui[c]]
  /\ req' = [req EXCEPT ![c] = NewRequest(trigger, ui'[c], store[c])]
  /\ resp' = [resp EXCEPT ![c] = Nothing]
  /\ pc' = [pc EXCEPT ![c] = "h_date"]
  /\ UNCHANGED <<now, ret, outcome, ucDf, ucTmp, cachePath, inodes, tmpLeft, CUTOFF_TIME,
                 DATA_TIMESTAMP, layout, store, installed, accepted, attempted, fetchOrder>>

\* ------------------------------------------------------------------------
\* update_dashboard (app.py:237-289) and load_cached_data (app.py:108-116)
\* ------------------------------------------------------------------------

\* app.py:244-250
H_Date(c) ==
  /\ pc[c] = "h_date"
  /\ req' = [req EXCEPT ![c].date_part = ParseDatePart(req[c].cutoff_date, CUTOFF_TIME),
                        ![c].cutoff0 = CUTOFF_TIME]
  /\ pc' = [pc EXCEPT ![c] = "h_time"]
  /\ UNCHANGED <<now, ret, outcome, ucDf, ucTmp, cachePath, inodes, tmpLeft, CUTOFF_TIME,
                 DATA_TIMESTAMP, layout, ui, store, resp, installed, accepted, attempted, fetchOrder>>

\* app.py:252-255
H_Time(c) ==
  /\ pc[c] = "h_time"
  /\ req' = [req EXCEPT ![c].hm = ParseTimePart(req[c].cutoff_time, CUTOFF_TIME)]
  /\ pc' = [pc EXCEPT ![c] = "h_set"]
  /\ UNCHANGED <<now, ret, outcome, ucDf, ucTmp, cachePath, inodes, tmpLeft, CUTOFF_TIME,
                 DATA_TIMESTAMP, layout, ui, store, resp, installed, accepted, attempted, fetchOrder>>

\* app.py:257-258  CUTOFF_TIME = datetime(...), outside any try
H_Set(c) ==
  /\ pc[c] = "h_set"
  /\ LET dt == MkDatetime(req[c].date_part, req[c].hm[1], req[c].hm[2])
     IN IF dt = Raised
        THEN HandlerRaises(c, "ValueError") /\ UNCHANGED CUTOFF_TIME
        ELSE /\ CUTOFF_TIME' = dt
             /\ pc' = [pc EXCEPT ![c] = "h_rate"]
             /\ UNCHANGED <<req, resp>>
  /\ UNCHANGED <<now, ret, outcome, ucDf, ucTmp, cachePath, inodes, tmpLeft,
                 DATA_TIMESTAMP, layout, ui, store, installed, accepted, attempted, fetchOrder>>

\* app.py:265  the spacing check on the value the request carries
SpacedEnough(t_now, last) == t_now - last >= MinRefreshSpacing

\* app.py:261-266  the rate limit; an accepted refresh calls update_cache
H_Rate(c) ==
  /\ pc[c] = "h_rate"
  /\ req' = [req EXCEPT ![c].now = now, ![c].last = req[c].last_refresh]
  /\ IF IsRefresh(req[c].trigger) /\ SpacedEnough(now, req[c].last_refresh)
     THEN /\ Call(c, "button")
          /\ accepted' = [accepted EXCEPT ![c] = <<now>>]
     ELSE /\ pc' = [pc EXCEPT ![c] = "h_load"]
          /\ UNCHANGED <<ret, outcome, accepted, attempted>>
  /\ UNCHANGED <<now, ucDf, ucTmp, cachePath, inodes, tmpLeft, CUTOFF_TIME,
                 DATA_TIMESTAMP, layout, ui, store, resp, installed, fetchOrder>>

\* app.py:269, 110-111  load_cached_data: refresh when the file is absent
H_Load(c) ==
  /\ pc[c] = "h_load"
  /\ IF cachePath = 0
     THEN Call(c, "load")
     ELSE pc' = [pc EXCEPT ![c] = "l_mtime"] /\ UNCHANGED <<ret, outcome, attempted>>
  /\ UNCHANGED <<now, ucDf, ucTmp, cachePath, inodes, tmpLeft, CUTOFF_TIME,
                 DATA_TIMESTAMP, layout, ui, store, req, resp, installed,
                 accepted, fetchOrder>>

\* app.py:112-115  the file's mtime goes to the global DATA_TIMESTAMP
L_Mtime(c) ==
  /\ pc[c] = "l_mtime"
  /\ IF cachePath = 0
     THEN HandlerRaises(c, "FileNotFoundError") /\ UNCHANGED DATA_TIMESTAMP
     ELSE /\ DATA_TIMESTAMP' = <<inodes[cachePath].mtime>>
          /\ pc' = [pc EXCEPT ![c] = "l_open"]
          /\ UNCHANGED <<req, resp>>
  /\ UNCHANGED <<now, ret, outcome, ucDf, ucTmp, cachePath, inodes, tmpLeft, CUTOFF_TIME,
                 layout, ui, store, installed, accepted, attempted, fetchOrder>>

\* app.py:116  pd.read_pickle(CACHE_FILE) opens the file the name refers to
\* (src keeps, as history, the modification time of the file opened)
L_Open(c) ==
  /\ pc[c] = "l_open"
  /\ IF cachePath = 0
     THEN HandlerRaises(c, "FileNotFoundError")
     ELSE /\ req' = [req EXCEPT ![c].fd = cachePath,
                                   ![c].src = <<inodes[cachePath].mtime>>]
          /\ pc' = [pc EXCEPT ![c] = "l_read"]
          /\ UNCHANGED resp
  /\ UNCHANGED <<now, ret, outcome, ucDf, ucTmp, cachePath, inodes, tmpLeft, CUTOFF_TIME,
                 DATA_TIMESTAMP, layout, ui, store, installed, accepted, attempted, fetchOrder>>

\* app.py:116  ... reads the open file piece by piece to its end and
\* unpickles what it read.
L_Read(c) ==
  /\ pc[c] = "l_read"
  /\ LET f == inodes[req[c].fd]
         buf == req[c].buf
     IN IF Len(buf) < Len(f.data)
        THEN /\ req' = [req EXCEPT ![c].buf = Append(buf, f.data[Len(buf) + 1])]
             /\ UNCHANGED <<pc, resp>>
        ELSE IF Unpickle(buf) = Raised
        THEN HandlerRaises(c, "UnpicklingError")
        ELSE /\ req' = [req EXCEPT ![c].df_all = Unpickle(buf), ![c].fd = 0,
                                   ![c].buf = <<>>]
             /\ pc' = [pc EXCEPT ![c] = "h_filter"]
             /\ UNCHANGED resp
  /\ inodes' = Gc(inodes, cachePath, ucTmp, req')
  /\ UNCHANGED <<now, ret, outcome, ucDf, ucTmp, cachePath, tmpLeft, CUTOFF_TIME,
                 DATA_TIMESTAMP, layout, ui, store, installed, accepted, attempted, fetchOrder>>

\* H_Filter that drops the rows from the frame it was given, in place.
H_FilterInPlace(c) ==
  /\ pc[c] = "h_filter"
  /\ LET df == FilterView(req[c].df_all, CUTOFF_TIME, req[c].completed_only)
     IN IF df = Raised
        THEN HandlerRaises(c, "KeyError")
        ELSE /\ req' = [req EXCEPT ![c].df = df, ![c].df_all = df]
             /\ pc' = [pc EXCEPT ![c] = "h_render"]
             /\ UNCHANGED resp
  /\ UNCHANGED <<now, ret, outcome, ucDf, ucTmp, cachePath, inodes, tmpLeft, CUTOFF_TIME,
                 DATA_TIMESTAMP, layout, ui, store, installed, accepted, attempted,
                 fetchOrder>>

\* app.py:270-272  the filter, with the global CUTOFF_TIME
H_Filter(c) ==
  /\ pc[c] = "h_filter"
  /\ LET df == FilterView(req[c].df_all, CUTOFF_TIME, req[c].completed_only)
     IN IF df = Raised
        THEN HandlerRaises(c, "KeyError")
        ELSE /\ req' = [req EXCEPT ![c].df = df]
             /\ pc' = [pc EXCEPT ![c] = "h_render"]
             /\ UNCHANGED resp
  /\ UNCHANGED <<now, ret, outcome, ucDf, ucTmp, cachePath, inodes, tmpLeft, CUTOFF_TIME,
                 DATA_TIMESTAMP, layout, ui, store, installed, accepted, attempted, fetchOrder>>

\* app.py:275-289  the return value; the browser keeps the third output in
\* last-refresh-store (app.py:228).
H_Render(c) ==
  /\ pc[c] = "h_render"
  /\ resp' = [resp EXCEPT ![c] =
                [intro |-> Intro(req[c].df, DATA_TIMESTAMP, CUTOFF_TIME),
                 view |-> req[c].df,
                 last |-> req[c].last]]
  /\ store' = [store EXCEPT ![c] = req[c].last]
  /\ req' = [req EXCEPT ![c] = NoReq]
  /\ pc' = [pc EXCEPT ![c] = "idle"]
  /\ UNCHANGED <<now, ret, outcome, ucDf, ucTmp, cachePath, inodes, tmpLeft, CUTOFF_TIME,
                 DATA_TIMESTAMP, layout, ui, installed, accepted, attempted, fetchOrder>>

\* ------------------------------------------------------------------------
\* The specifications
\* ------------------------------------------------------------------------

\* What an event may set an input to.
ValuesFor(trigger, dates, times) ==
  CASE trigger = DateChange -> dates
    [] trigger = TimeChange -> times
    [] trigger = CheckboxChange -> {Unchecked, Checked}
    [] OTHER -> {<<>>}

Refresh(t, replies, oks) ==
  \/ \E reply \in replies : UC_Fetch(t, reply)
  \/ \E ok \in oks : UC_MkTemp(t, ok)
  \/ \E ok \in oks : UC_Write(t, ok)
  \/ \E ok \in oks : UC_Replace(t, ok)

Callback(c) ==
  \/ H_Date(c)
  \/ H_Time(c)
  \/ H_Set(c)
  \/ H_Rate(c)
  \/ H_Load(c)
  \/ L_Mtime(c)
  \/ L_Open(c)
  \/ L_Read(c)
  \/ H_Filter(c)
  \/ H_Render(c)

Browser(c, triggers, dates, times) ==
  \/ PageLoad(c)
  \/ \E trigger \in triggers :
       \E value \in ValuesFor(trigger, dates, times) : UiEvent(c, trigger, value)

Startup == MainStart \/ MainStartThread \/ MainLayout

\* The refresh specification: the startup, the polling thread and one
\* browser whose user presses the button or leaves the page open, while the
\* remote answers with data, with nothing or not at all and any file
\* operation may fail; all within one tick of the clock.
RefreshReplies == {NetworkError, PayloadEmpty, PayloadMixed}

Next ==
  \/ Startup
  \/ PollWake
  \/ \E t \in {"main", "poll", "c1"} : Refresh(t, RefreshReplies, BOOLEAN)
  \/ Callback("c1")
  \/ Browser("c1", {RefreshButton, IntervalTick}, {}, {})

Spec == Init /\ [][Next]_vars

\* The same, with the scheduling the threads get: the polling thread's
\* sleep ends, and each call it makes returns or raises.
PollStep == PollWake \/ Refresh("poll", RefreshReplies, BOOLEAN)
LiveSpec == Spec /\ WF_vars(PollStep)

\* The rate-limit specification: two browsers pressing the button as time
\* passes, in the first fifteen minutes (before the polling thread wakes).
RateNext ==
  \/ Startup
  \/ Tick
  \/ \E t \in {"main", "c1", "c2"} : Refresh(t, {NetworkError, PayloadMixed}, {TRUE})
  \/ \E c \in Clients : Callback(c)
  \/ \E c \in Clients : Browser(c, {RefreshButton}, {}, {})

RateSpec == Init /\ [][RateNext]_vars

\* The dashboard specification: one browser whose user edits the cutoff
\* date, the cutoff time and the checkbox, well formed or not, over every
\* kind of snapshot; in the first fifteen minutes, with no file error.
DashReplies == {NetworkError, PayloadEmpty, PayloadMixed, PayloadNoToken, PayloadBad}
DashDates == ValidDates \cup MalformedDates \cup {NoneStr}
DashTimes == ValidTimes \cup MalformedTimes

DashNext ==
  \/ Startup
  \/ \E t \in {"main", "c1"} : Refresh(t, DashReplies, {TRUE})
  \/ Callback("c1")
  \/ Browser("c1", Triggers, DashDates, DashTimes)

DashSpec == Init /\ [][DashNext]_vars

\* The filter specification: update_dashboard about to filter (app.py:270)
\* a snapshot drawn from the frames fetch_responses makes of up to MaxRows
\* responses, and of the ten responses of the spec's scenario, under a
\* cutoff and a checkbox value; then the filter and the rendering run.
RowKinds ==
  {Response(token, startdate, lastpage) :
     token \in {"a", None},
     startdate \in {Dt(20, 17, 0), Dt(20, 18, 0), Dt(21, 10, 0), NaT},
     lastpage \in {1, 5}}

RECURSIVE SeqsUpTo(_, _)
SeqsUpTo(S, n) ==
  IF n = 0 THEN {<<>>}
  ELSE SeqsUpTo(S, n - 1)
         \cup {Append(q, x) : q \in {r \in SeqsUpTo(S, n - 1) : Len(r) = n - 1}, x \in S}

\* Ten responses, six of them after the default cutoff, three of those
\* complete.
PayloadTen ==
  MkPayload(AllKeys,
            << Response("a", Dt(20, 17, 0), 5), Response("b", Dt(20, 17, 0), 1),
               Response("c", Dt(20, 18, 0), 5), Response("d", NaT, 5),
               Response("e", Dt(21, 10, 0), 5), Response("f", Dt(21, 10, 0), 5),
               Response("g", Dt(21, 12, 0), 5), Response("h", Dt(21, 10, 0), 1),
               Response("i", Dt(21, 12, 0), 1), Response("j", Dt(21, 12, 0), 2) >>)

FilterPayloads ==
  {MkPayload(AllKeys, rows) : rows \in SeqsUpTo(RowKinds, MaxRows)}
    \cup {PayloadNoToken, PayloadTen}
FilterCutoffs == {DefaultCutoff, Dt(21, 9, 30)}

FilterInit ==
  \E reply \in FilterPayloads, cutoff \in FilterCutoffs,
     completed_only \in {Unchecked, Checked} :
    /\ now = 0
    /\ pc = [t \in Threads |->
               IF t = "main" THEN "serving" ELSE IF t = "poll" THEN "p_sleep"
               ELSE IF t = "c1" THEN "h_filter" ELSE "closed"]
    /\ ret = [t \in Threads |-> None]
    /\ outcome = [t \in Threads |-> IF t = "main" THEN "ok" ELSE "none"]
    /\ ucDf = [t \in Threads |-> Nothing]
    /\ ucTmp = [t \in Threads |-> 0]
    /\ cachePath = 1
    /\ inodes = [i \in InodeIds |->
                   IF i = 1 THEN [data |-> Pickle(FetchResponses(reply)), mtime |-> 0]
                   ELSE Nothing]
    /\ installed = {FetchResponses(reply)}
    /\ tmpLeft = 0
    /\ CUTOFF_TIME = cutoff
    /\ DATA_TIMESTAMP = <<0>>
    /\ layout = [date |-> FormatDate(DateOf(DefaultCutoff)),
                 time |-> FormatTime(DefaultCutoff),
                 completed |-> Unchecked, store |-> 0 - StoreOffset]
    /\ ui = [c \in Clients |->
               IF c = "c1"
               THEN [date |-> FormatDate(DateOf(cutoff)), time |-> FormatTime(cutoff),
                     completed |-> completed_only]
               ELSE Nothing]
    /\ store = [c \in Clients |-> IF c = "c1" THEN 0 - StoreOffset ELSE 0]
    /\ req = [c \in Clients |->
                IF c = "c1"
                THEN [NewRequest(CheckboxChange, ui[c], store[c]) EXCEPT
                        !.cutoff0 = cutoff, !.date_part = DateOf(cutoff),
                        !.hm = <<cutoff.hour, cutoff.minute>>,
                        !.last = store[c], !.src = <<0>>,
                        !.df_all = FetchResponses(reply)]
                ELSE NoReq]
    /\ resp = [c \in Clients |-> Nothing]
    /\ accepted = [c \in Clients |-> <<>>]
    /\ attempted = <<0>>
    /\ fetchOrder = <<FileMark>>

FilterNext == H_Filter("c1") \/ H_Render("c1")

FilterSpec == FilterInit /\ [][FilterNext]_vars

\* ------------------------------------------------------------------------
\* C1  Atomicity of the snapshot
\* ------------------------------------------------------------------------

IsPrefix(a, b) == Len(a) <= Len(b) /\ a = SubSeq(b, 1, Len(a))

\* The file is the whole pickle of one frame some os.replace installed.
WholeSnapshot(f) ==
  f # Nothing /\ \E df \in installed : f.data = Pickle(df)

\* C1: in every interleaving of update_cache with load_cached_data, the
\* file CACHE_FILE names, and the file any reader has open, is the whole
\* pickle of one completed write; what a reader has read so far is the
\* beginning of that one pickle; no read ends in an unpickling error and the
\* frame a reader gets is one that was installed. An update_cache that
\* fails between the temporary file's write and os.replace leaves
\* CACHE_FILE naming the same unchanged file.
C1_AtomicSnapshot ==
  /\ [](/\ cachePath # 0 => WholeSnapshot(inodes[cachePath])
        /\ \A c \in Clients :
             /\ req[c].fd # 0 =>
                  /\ WholeSnapshot(inodes[req[c].fd])
                  /\ IsPrefix(req[c].buf, inodes[req[c].fd].data)
             /\ resp[c] # RaisedWith("UnpicklingError")
             /\ pc[c] \in {"h_filter", "h_render"} => req[c].df_all \in installed)
  /\ [][\A t \in Threads :
          (pc[t] = "uc_replace" /\ pc'[t] # "uc_replace" /\ outcome'[t] = "failed") =>
            /\ cachePath' = cachePath
            /\ cachePath # 0 => inodes'[cachePath] = inodes[cachePath]]_vars

\* A reader is in the middle of a file that os.replace has meanwhile
\* superseded.
C1_Witness ==
  \E c \in Clients :
    /\ pc[c] = "l_read"
    /\ req[c].fd # 0 /\ req[c].fd # cachePath
    /\ Len(req[c].buf) = 1

\* ------------------------------------------------------------------------
\* C2  Rate limiting
\* ------------------------------------------------------------------------

\* C2 (as claimed): an on-demand request is accepted for a refresh, and so
\* calls fetch_responses, only when no on-demand request of any browser was
\* accepted less than MinRefreshSpacing seconds before it.
C2_RateLimited ==
  [][\A c \in Clients :
       (pc[c] = "h_rate" /\ pc'[c] = "uc_fetch") =>
         \A d \in Clients :
           accepted[d] # <<>> => now - accepted[d][1] >= MinRefreshSpacing]_vars

\* ------------------------------------------------------------------------
\* C3  No concurrent refreshes
\* ------------------------------------------------------------------------

InRefresh == {t \in Threads : pc[t] \in UcPcs}

\* C3 (as claimed): at most one execution of update_cache is in progress.
C3_OneRefreshAtATime == Cardinality(InRefresh) <= 1

\* ------------------------------------------------------------------------
\* C4  The background loop survives failures
\* ------------------------------------------------------------------------

\* C4: once started, the polling thread is always asleep or refreshing, and
\* after every refresh of its own that failed it attempts another one.
C4_PollSurvives ==
  /\ [](pc["poll"] \in {"unstarted", "p_sleep"} \cup UcPcs)
  /\ [](pc["main"] # "crashed" \/ pc["poll"] = "unstarted")
  /\ (pc["poll"] = "p_sleep" /\ outcome["poll"] = "failed") ~> (pc["poll"] = "uc_fetch")
  /\ [](pc["poll"] # "unstarted" => <>(pc["poll"] = "uc_fetch"))

\* The polling thread is in the attempt that follows a failed one.
C4_Witness == pc["poll"] = "uc_fetch" /\ outcome["poll"] = "failed"

\* ------------------------------------------------------------------------
\* C5  A failed refresh leaves the previous snapshot intact
\* ------------------------------------------------------------------------

\* The step in which thread t's update_cache raises.
FailsNow(t) == pc[t] \in UcPcs /\ pc'[t] \notin UcPcs /\ outcome'[t] = "failed"
\* The step in which thread t's os.replace succeeds.
ReplacesNow(t) == pc[t] = "uc_replace" /\ pc'[t] \notin UcPcs /\ outcome'[t] = "ok"

SnapshotUnchanged ==
  /\ cachePath' = cachePath
  /\ cachePath # 0 => inodes'[cachePath] = inodes[cachePath]
  /\ installed' = installed

IsChecked(completed_only) == Len(completed_only) > 0 /\ completed_only[1] # 0
ExpectedRows(S, C, completed_only) ==
  LET Keep(r) ==
        /\ "startdate" \in DOMAIN r
        /\ r["startdate"] # NaT
        /\ DtGreater(r["startdate"], C)
        /\ IsChecked(completed_only) =>
             ("is_completed" \in DOMAIN r /\ r["is_completed"])
  IN SelectSeq(S.rows, Keep)

\* C6 (as claimed): for every snapshot S and cutoff C, the filter step of
\* update_dashboard yields a view, and the view holds exactly the records
\* of S that start after C and, with completed_only, are completed.
C6_FilterCorrect ==
  [][\A c \in Clients :
       (pc[c] = "h_filter" /\ pc'[c] # "h_filter") =>
         /\ pc'[c] = "h_render"
         /\ req'[c].df.rows =
              ExpectedRows(req[c].df_all, CUTOFF_TIME, req[c].completed_only)]_vars

\* ------------------------------------------------------------------------
\* C7  Malformed cutoff input
\* ------------------------------------------------------------------------

\* A valid HH:MM: two integer fields, hour 0-23 and minute 0-59.
WellFormedTime(s) ==
  /\ s # NoneStr
  /\ LET fields == Split(s, ":")
     IN /\ Len(fields) = 2
        /\ AllDigits(fields[1]) /\ AllDigits(fields[2])
        /\ DigitsVal(fields[1]) \in 0..23
        /\ DigitsVal(fields[2]) \in 0..59
WellFormedDate(s) == s # NoneStr /\ DateFromIso(s) # Raised

\* The request r came with one input malformed and the other as the active
\* cutoff (r.cutoff0, the global at the callback's entry) shows it.
MalformedCutoffInput(r) ==
  /\ r.cutoff0 # Nothing
  /\ \/ /\ ~WellFormedTime(r.cutoff_time)
        /\ r.cutoff_date = FormatDate(DateOf(r.cutoff0))
     \/ /\ r.cutoff_date # NoneStr /\ ~WellFormedDate(r.cutoff_date)
        /\ r.cutoff_time = FormatTime(r.cutoff0)

\* C7 (as claimed): with a malformed cutoff-time or cutoff-date and the
\* other input unchanged, the assignment of CUTOFF_TIME (app.py:257) does
\* not raise and leaves CUTOFF_TIME as it was at the callback's entry.
C7_MalformedCutoffKept ==
  [][\A c \in Clients :
       (pc[c] = "h_set" /\ pc'[c] # "h_set" /\ MalformedCutoffInput(req[c])) =>
         (pc'[c] = "h_rate" /\ CUTOFF_TIME' = req[c].cutoff0)]_vars

\* ------------------------------------------------------------------------
\* C8  An empty dataset is never an error
\* ------------------------------------------------------------------------

\* The snapshot S has nothing to show under cutoff C and the checkbox: it
\* is empty, or lacks the token or the completion field, or the filter
\* excludes every record.
NothingToShow(S, C, completed_only) ==
  \/ FrameEmpty(S)
  \/ "token" \notin S.cols
  \/ "is_completed" \notin S.cols
  \/ ExpectedRows(S, C, completed_only) = <<>>

\* C8 (as claimed): over a snapshot with nothing to show, with either
\* value of completed_only, the filter of update_dashboard does not raise
\* and the callback returns the no-data state.
C8_EmptyNeverAnError ==
  [][\A c \in Clients :
       /\ (/\ pc[c] = "h_filter" /\ pc'[c] # "h_filter"
           /\ NothingToShow(req[c].df_all, CUTOFF_TIME, req[c].completed_only))
            => pc'[c] = "h_render"
       /\ (/\ pc[c] = "h_render" /\ pc'[c] # "h_render"
           /\ NothingToShow(req[c].df_all, CUTOFF_TIME, req[c].completed_only))
            => resp'[c].intro = NoData]_vars

\* ------------------------------------------------------------------------
\* C9  Startup ordering
\* ------------------------------------------------------------------------

Started ==
  \/ pc["poll"] # "unstarted"
  \/ layout # Nothing
  \/ pc["main"] = "serving"
  \/ \E c \in Clients : pc[c] # "closed"

\* C9: the polling thread runs, the layout exists and a request is handled
\* only after main's update_cache returned, with the snapshot in place; and
\* when main's update_cache raised, the process is over: no thread, no
\* layout, no request.
C9_StartupOrdering ==
  /\ Started => (outcome["main"] = "ok" /\ cachePath # 0)
  /\ outcome["main"] = "failed" => (pc["main"] = "crashed" /\ ~Started)
  /\ pc["main"] = "crashed" => outcome["main"] = "failed"

\* The polling thread refreshes and a browser's request is being handled.
C9_Witness ==
  /\ pc["poll"] \in UcPcs
  /\ pc["c1"] \notin {"closed", "idle"}
  /\ outcome["main"] = "ok"

\* ------------------------------------------------------------------------
\* C10  Snapshot existence
\* ------------------------------------------------------------------------

\* C10: from the end of main's update_cache on, CACHE_FILE exists and holds
\* a whole snapshot; load_cached_data goes past its existence check
\* (app.py:110-111) only with the file there, calling update_cache first
\* when it is absent; and no step removes the file or changes the content
\* of the file CACHE_FILE names: the name moves to another whole file in
\* a successful os.replace, and in no other step.
C10_SnapshotExists ==
  /\ [](/\ pc["main"] \in {"m_thread", "m_layout", "serving"} =>
             (cachePath # 0 /\ WholeSnapshot(inodes[cachePath]))
        /\ \A c \in Clients :
             /\ pc[c] \in {"l_mtime", "l_open", "l_read", "h_filter", "h_render"} =>
                  (cachePath # 0 /\ WholeSnapshot(inodes[cachePath]))
             /\ resp[c] # RaisedWith("FileNotFoundError"))
  /\ [][/\ \A c \in Clients :
             (pc[c] = "h_load" /\ pc'[c] # "h_load" /\ cachePath = 0) =>
               (pc'[c] = "uc_fetch" /\ ret'[c] = "load")
        /\ cachePath # 0 =>
             /\ cachePath' # 0
             /\ cachePath' = cachePath => inodes'[cachePath] = inodes[cachePath]
             /\ cachePath' # cachePath => \E t \in Threads : ReplacesNow(t)]_vars

\* The server serves, a refresh has replaced the snapshot main made, and a
\* reader is past the existence check.
C10_Witness ==
  /\ pc["main"] = "serving"
  /\ cachePath # 0
  /\ outcome["poll"] = "ok"
  /\ pc["c1"] = "l_mtime"

\* The file is gone when load_cached_data is called (something outside the
\* program emptied the temporary directory): two browsers' callbacks at
\* app.py:269.
LoadInit ==
  /\ now = 0
  /\ pc = [t \in Threads |->
             IF t = "main" THEN "serving" ELSE IF t = "poll" THEN "p_sleep"
             ELSE "h_load"]
  /\ ret = [t \in Threads |-> None]
  /\ outcome = [t \in Threads |-> IF t = "main" THEN "ok" ELSE "none"]
  /\ ucDf = [t \in Threads |-> Nothing]
  /\ ucTmp = [t \in Threads |-> 0]
  /\ cachePath = 0
  /\ inodes = [i \in InodeIds |-> Nothing]
  /\ installed = {PriorFrame}
  /\ tmpLeft = 0
  /\ CUTOFF_TIME = DefaultCutoff
  /\ DATA_TIMESTAMP = <<>>
  /\ layout = [date |-> FormatDate(DateOf(DefaultCutoff)),
               time |-> FormatTime(DefaultCutoff),
               completed |-> Unchecked, store |-> 0 - StoreOffset]
  /\ ui = [c \in Clients |->
             [date |-> layout.date, time |-> layout.time, completed |-> Unchecked]]
  /\ store = [c \in Clients |-> layout.store]
  /\ req = [c \in Clients |->
              [NewRequest(InitialCall, ui[c], store[c]) EXCEPT
                 !.cutoff0 = DefaultCutoff, !.date_part = DateOf(DefaultCutoff),
                 !.hm = <<DefaultCutoff.hour, DefaultCutoff.minute>>,
                 !.last = store[c]]]
  /\ resp = [c \in Clients |-> Nothing]
  /\ accepted = [c \in Clients |-> <<>>]
  /\ attempted = <<0>>
  /\ fetchOrder = <<FileMark>>

LoadNext ==
  \E c \in Clients :
    \/ H_Load(c) \/ L_Mtime(c) \/ L_Open(c) \/ L_Read(c)
    \/ H_Filter(c) \/ H_Render(c)
    \/ Refresh(c, RefreshReplies, BOOLEAN)

LoadSpec == LoadInit /\ [][LoadNext]_vars

\* With the file absent at the call, load_cached_data calls update_cache
\* before anything else, goes on only with a whole snapshot in place, and
\* returns a frame only from such a snapshot.
LoaderCreatesSnapshot ==
  /\ [](\A c \in Clients :
          pc[c] \in {"l_mtime", "l_open", "l_read", "h_filter", "h_render"} =>
            (cachePath # 0 /\ WholeSnapshot(inodes[cachePath])))
  /\ [][\A c \in Clients :
          (pc[c] = "h_load" /\ pc'[c] # "h_load" /\ cachePath = 0) =>
            (pc'[c] = "uc_fetch" /\ ret'[c] = "load")]_vars
LoaderCreatedSnapshot ==
  \E c \in Clients : pc[c] = "l_mtime" /\ outcome[c] = "ok" /\ ret[c] = None

\* ------------------------------------------------------------------------
\* C11  The spacing is measured from the last refresh of any origin
\* ------------------------------------------------------------------------

\* C11 (as claimed): an on-demand request is accepted for a refresh, and so
\* calls fetch_responses, only when the last call of update_cache, from
\* main, from the polling thread or from a callback, returned or raised or
\* still running, is at least MinRefreshSpacing seconds old.
C11_SpacedFromAnyRefresh ==
  [][\A c \in Clients :
       (pc[c] = "h_rate" /\ pc'[c] = "uc_fetch") =>
         (attempted = <<>> \/ now - attempted[1] >= MinRefreshSpacing)]_vars

\* ------------------------------------------------------------------------
\* C12  An update that is no accepted refresh changes nothing in the cache
\* ------------------------------------------------------------------------

HandlerPcs ==
  {"h_date", "h_time", "h_set", "h_rate", "h_load", "l_mtime", "l_open",
   "l_read", "h_filter", "h_render"}

\* The time of callback c: the clock until line 261 has read it.
TimeOf(c) ==
  IF pc[c] \in {"h_date", "h_time", "h_set", "h_rate"} THEN now ELSE req[c].now

\* Callback c was fired by the timer, a cutoff change, a checkbox change, or
\* by the button less than MinRefreshSpacing seconds after the stored
\* last-refresh time.
QuietRequest(c) ==
  \/ req[c].trigger \in {IntervalTick, DateChange, TimeChange, CheckboxChange}
  \/ /\ req[c].trigger = RefreshButton
     /\ TimeOf(c) - req[c].last_refresh < MinRefreshSpacing

\* Callback c takes a step.
StepOf(c) == pc[c] \in HandlerPcs /\ (pc'[c] # pc[c] \/ req'[c] # req[c])

\* C12 (as claimed): with the cache file there, no step of such a callback
\* calls update_cache, changes CACHE_FILE or leaves a file in the cache
\* directory, or ends the callback with an exception; and its last step
\* returns the stored last-refresh time and the view of the snapshot that
\* is in CACHE_FILE.
C12_QuietUpdateChangesNothing ==
  [][\A c \in Clients :
       (StepOf(c) /\ QuietRequest(c) /\ cachePath # 0) =>
         /\ pc'[c] \notin UcPcs
         /\ SnapshotUnchanged
         /\ tmpLeft' = tmpLeft
         /\ "raised" \notin DOMAIN resp'[c]
         /\ pc[c] = "h_render" =>
              /\ resp'[c].last = req[c].last_refresh
              /\ resp'[c].view = req[c].df
              /\ req[c].df_all = Unpickle(inodes[cachePath].data)]_vars

\* ------------------------------------------------------------------------
\* The filter as a function of its arguments
\* ------------------------------------------------------------------------

\* Frames with responses but without the startdate column (frames
\* fetch_responses does not make: filter_by_cutoff has a branch for them,
\* app.py:94).
NoStartCols == {"token", "lastpage", "is_completed"}
NoStartRowKinds == {[token |-> token, lastpage |-> lastpage] :
                      token \in {"a", None}, lastpage \in {1, 5}}
NoStartFrame(rows) ==
  [cols |-> NoStartCols,
   rows |-> [i \in 1..Len(rows) |->
               [k \in NoStartCols |->
                  IF k = "is_completed" THEN rows[i].lastpage >= LASTPAGE_THRESHOLD
                  ELSE rows[i][k]]]]
NoStartFrames ==
  {NoStartFrame(rows) : rows \in SeqsUpTo(NoStartRowKinds, MaxRows) \ {<<>>}}

PureFrames ==
  {FetchResponses(reply) : reply \in FilterPayloads} \cup NoStartFrames

\* The pure specification: two calls of update_dashboard about to filter
\* (app.py:270) the same frame under the same cutoff and the same checkbox
\* value, the frame drawn from PureFrames; each filters and renders.
PureInit ==
  \E df_all \in PureFrames, cutoff \in FilterCutoffs,
     completed_only \in {Unchecked, Checked} :
    /\ now = 0
    /\ pc = [t \in Threads |->
               IF t = "main" THEN "serving" ELSE IF t = "poll" THEN "p_sleep"
               ELSE "h_filter"]
    /\ ret = [t \in Threads |-> None]
    /\ outcome = [t \in Threads |-> IF t = "main" THEN "ok" ELSE "none"]
    /\ ucDf = [t \in Threads |-> Nothing]
    /\ ucTmp = [t \in Threads |-> 0]
    /\ cachePath = 1
    /\ inodes = [i \in InodeIds |->
                   IF i = 1 THEN [data |-> Pickle(df_all), mtime |-> 0]
                   ELSE Nothing]
    /\ installed = {df_all}
    /\ tmpLeft = 0
    /\ CUTOFF_TIME = cutoff
    /\ DATA_TIMESTAMP = <<0>>
    /\ layout = [date |-> FormatDate(DateOf(DefaultCutoff)),
                 time |-> FormatTime(DefaultCutoff),
                 completed |-> Unchecked, store |-> 0 - StoreOffset]
    /\ ui = [c \in Clients |->
               [date |-> FormatDate(DateOf(cutoff)), time |-> FormatTime(cutoff),
                completed |-> completed_only]]
    /\ store = [c \in Clients |-> 0 - StoreOffset]
    /\ req = [c \in Clients |->
                [NewRequest(CheckboxChange, ui[c], store[c]) EXCEPT
                   !.cutoff0 = cutoff, !.date_part = DateOf(cutoff),
                   !.hm = <<cutoff.hour, cutoff.minute>>,
                   !.last = store[c], !.src = <<0>>, !.df_all = df_all]]
    /\ resp = [c \in Clients |-> Nothing]
    /\ accepted = [c \in Clients |-> <<>>]
    /\ attempted = <<0>>
    /\ fetchOrder = <<FileMark>>

PureNext == \E c \in Clients : H_Filter(c) \/ H_Render(c)

PureSpec == PureInit /\ [][PureNext]_vars

\* ------------------------------------------------------------------------
\* C13  Missing timestamp field
\* ------------------------------------------------------------------------

CutoffNext ==
  \/ Startup
  \/ Refresh("main", {PayloadMixed}, {TRUE})
  \/ \E c \in Clients : Callback(c)
  \/ \E c \in Clients : Browser(c, {DateChange}, ValidDates, {})

CutoffSpec == Init /\ [][CutoffNext]_vars

\* The cutoff callback c derived from its own inputs (app.py:257-258).
OwnCutoff(c) == MkDatetime(req[c].date_part, req[c].hm[1], req[c].hm[2])

\* C15 (as claimed): the cutoff a call filters the snapshot with, and the
\* one it prints in the intro, is the one it derived from its own inputs.
C15_OwnCutoff ==
  [][\A c \in Clients :
       /\ (pc[c] = "h_filter" /\ pc'[c] = "h_render") =>
            req'[c].df = FilterView(req[c].df_all, OwnCutoff(c), req[c].completed_only)
       /\ (pc[c] = "h_render" /\ pc'[c] = "idle" /\ "intro" \in DOMAIN resp'[c]) =>
            resp'[c].intro = Intro(req[c].df, DATA_TIMESTAMP, OwnCutoff(c))]_vars

\* ------------------------------------------------------------------------
\* C16  The freshness timestamp matches the displayed data
\* ------------------------------------------------------------------------

\* C16 (as claimed): the 'Data updated' time a call prints is the
\* modification time of the file that call read its records from.
C16_TimestampOfDataRead ==
  [][\A c \in Clients :
       (/\ pc[c] = "h_render" /\ pc'[c] = "idle"
        /\ "intro" \in DOMAIN resp'[c]
        /\ resp'[c].intro # NoData) =>
         resp'[c].intro.updated = req[c].src]_vars

\* ------------------------------------------------------------------------
\* C17  The snapshot never regresses
\* ------------------------------------------------------------------------

\* Thread t fetched its data before the data in CACHE_FILE was fetched.
FetchedBeforeSnapshot(t) ==
  \E i, j \in 1..Len(fetchOrder) :
    i < j /\ fetchOrder[i] = t /\ fetchOrder[j] = FileMark

\* C17 (as claimed): os.replace installs data that was fetched after the
\* data it replaces.
C17_NoRegress ==
  [][\A t \in Threads : ReplacesNow(t) => ~FetchedBeforeSnapshot(t)]_vars

\* ------------------------------------------------------------------------
\* C18  No temporary file is left behind
\* ------------------------------------------------------------------------

\* C18 (as claimed): whenever no update_cache execution is under way, the
\* cache directory holds no temporary file, however the executions ended.
C18_NoTempLeft ==
  (InRefresh = {}) => tmpLeft = 0

====
